---- MODULE Spec2Model ----
(***************************************************************************)
(* Model of the chat client src/client/app.js: the session state, the      *)
(* send operation in its streaming and non-streaming form, the line        *)
(* decoding of the event stream, the citation renderer and the chat reset  *)
(* operations.                                                             *)
(*                                                                         *)
(* Text is a sequence of string pieces: "Hello world" is                   *)
(* <<"Hello", " ", "world">>.  HTML is a sequence of string pieces as      *)
(* well.  The byte stream of a streaming response is a sequence of pieces  *)
(* in which "\n" is the newline; a chunk handed out by reader.read() is    *)
(* any non-empty run of consecutive pieces.                                *)
(***************************************************************************)
EXTENDS Integers, Sequences, FiniteSets, TLC

\* ------------------------------------------------------------------ bounds
\* sends that run to their end in one behaviour
MaxSends == 1
\* frame lines the server writes, over all streaming responses of a behaviour
MaxFrames == 3
\* calls of checkConnection in one behaviour: the one of initializeApp and
\* those of the interval timer
MaxChecks == 3

\* ------------------------------------------------------- sequences of pieces
\* String.prototype.trim: whitespace pieces removed at both ends
RECURSIVE TrimLeft(_)
TrimLeft(s) == IF s # <<>> /\ Head(s) = " " THEN TrimLeft(Tail(s)) ELSE s

RECURSIVE TrimRight(_)
TrimRight(s) ==
    IF s # <<>> /\ s[Len(s)] = " " THEN TrimRight(SubSeq(s, 1, Len(s) - 1)) ELSE s

Trim(s) == TrimRight(TrimLeft(s))

\* chunk.split('\n'): the pieces between newlines, empty lines included
RECURSIVE SplitFrom(_, _)
SplitFrom(s, cur) ==
    IF s = <<>> THEN <<cur>>
    ELSE IF Head(s) = "\n" THEN <<cur>> \o SplitFrom(Tail(s), <<>>)
    ELSE SplitFrom(Tail(s), Append(cur, Head(s)))

SplitLines(chunk) == SplitFrom(chunk, <<>>)

\* ------------------------------------------------------------------ sources
NoField == <<>>

Doc1 == [source |-> <<"doc1.pdf">>, url |-> NoField, title |-> NoField]
Web2 == [source |-> <<"http", "://kb/", "doc2.html">>, url |-> NoField, title |-> NoField]
Kb3  == [source |-> <<"kb/", "doc3.html">>, url |-> <<"https", "://kb/", "doc3.html">>,
         title |-> <<"KB article">>]

\* ------------------------------------------------------- the wire: frame lines
Marker == "data: "

ObjMeta1 == "{\"type\":\"metadata\",\"sources\":[{\"source\":\"doc1.pdf\"}]}"
ObjMeta2 == "{\"type\":\"metadata\",\"sources\":[{\"source\":\"http://kb/doc2.html\"},{\"source\":\"doc1.pdf\"}]}"
ObjHello == "{\"type\":\"content\",\"text\":\"Hello\"}"
ObjWorld == "{\"type\":\"content\",\"text\":\" world\"}"
ObjError == "{\"type\":\"error\",\"message\":\"boom\"}"
NotJson  == "{not json"
\* frames with an empty list, without the sources field, and of a type the
\* client does not know; a line that does not start with the marker
ObjMeta0 == "{\"type\":\"metadata\",\"sources\":[]}"
ObjMetaNoSources == "{\"type\":\"metadata\"}"
ObjPing == "{\"type\":\"ping\"}"
CommentLine == <<": keep-alive">>

\* a frame line as the server writes it: the marker, then the payload.  A chunk
\* boundary inside the line falls between the two pieces; a boundary inside the
\* payload has the same effect on both fragments (the first no longer parses,
\* the second no longer starts with the marker)
FrameLine(payload) == <<Marker, payload>>

JsonObjects == {ObjMeta1, ObjMeta2, ObjHello, ObjWorld, ObjError}

FrameLines == {FrameLine(o) : o \in JsonObjects \cup {NotJson}}

\* further payloads JSON.parse accepts
OtherObjects == {ObjMeta0, ObjMetaNoSources, ObjPing}

\* the lines of the responses of a session with keep-alive traffic
SessionLines ==
    {FrameLine(o) : o \in {ObjMeta1, ObjMetaNoSources, ObjHello, ObjPing}}
        \cup {CommentLine}

\* the bytes of a response: every line is followed by a newline
RECURSIVE Encode(_)
Encode(lines) ==
    IF lines = <<>> THEN <<>> ELSE Head(lines) \o <<"\n">> \o Encode(Tail(lines))

\* JSON.parse of the text after the marker: the parsed object, or a SyntaxError
\* (ok is FALSE) when the text is empty, cut short or no JSON
NoData == [ok |-> FALSE, type |-> "", hasSources |-> FALSE, sources |-> <<>>,
           text |-> <<>>, message |-> ""]

JSONparse(t) ==
    IF Len(t) # 1 \/ t[1] \notin JsonObjects \cup OtherObjects THEN NoData
    ELSE CASE t[1] = ObjMeta1 ->
                [NoData EXCEPT !.ok = TRUE, !.type = "metadata", !.hasSources = TRUE,
                               !.sources = <<Doc1>>]
           [] t[1] = ObjMeta2 ->
                [NoData EXCEPT !.ok = TRUE, !.type = "metadata", !.hasSources = TRUE,
                               !.sources = <<Web2, Doc1>>]
           [] t[1] = ObjHello ->
                [NoData EXCEPT !.ok = TRUE, !.type = "content", !.text = <<"Hello">>]
           [] t[1] = ObjWorld ->
                [NoData EXCEPT !.ok = TRUE, !.type = "content", !.text = <<" ", "world">>]
           [] t[1] = ObjError ->
                [NoData EXCEPT !.ok = TRUE, !.type = "error", !.message = "boom"]
           [] t[1] = ObjMeta0 ->
                [NoData EXCEPT !.ok = TRUE, !.type = "metadata", !.hasSources = TRUE]
           [] t[1] = ObjMetaNoSources ->
                [NoData EXCEPT !.ok = TRUE, !.type = "metadata"]
           [] t[1] = ObjPing ->
                [NoData EXCEPT !.ok = TRUE, !.type = "ping"]

\* line.startsWith('data: ') and line.slice(6)
startsWithMarker(line) == line # <<>> /\ Head(line) = Marker
sliceMarker(line) == Tail(line)

\* ---------------------------------------------------------------- rendering
\* marked.parse on plain prose: one paragraph, surrounding blanks dropped
markedParse(text) ==
    IF Trim(text) = <<>> THEN <<>> ELSE <<"<p>">> \o Trim(text) \o <<"</p>\n">>

CitationMark(k) == "[" \o ToString(k) \o "]"

\* isLinked without the test of the locator
isLinkedByUrlOnly(source) == source.url # NoField

\* source.url || (source.source && source.source.startsWith('http'))
isLinked(source) ==
    source.url # NoField \/ (source.source # NoField /\ Head(source.source) = "http")

\* source.title || source.source?.split('/').pop() || 'Source'
citationTitle(source) ==
    IF source.title # NoField THEN source.title
    ELSE IF source.source # NoField THEN <<source.source[Len(source.source)]>>
    ELSE <<"Source">>

\* citationHtml numbering with the index of the map callback, without the + 1
citationHtmlFromIndex(source, k) ==
    IF isLinked(source)
    THEN <<"<a class=\"citation-link\" href=\"">>
         \o (IF source.url # NoField THEN source.url ELSE source.source)
         \o <<"\" title=\"">> \o citationTitle(source)
         \o <<"\">", CitationMark(k - 1), "</a>">>
    ELSE <<"<span class=\"citation-number\">", CitationMark(k - 1), "</span>">>

\* the map callback: the marker of the source at position k, a link when the
\* source has an address
citationHtml(source, k) ==
    IF isLinked(source)
    THEN <<"<a class=\"citation-link\" href=\"">>
         \o (IF source.url # NoField THEN source.url ELSE source.source)
         \o <<"\" title=\"">> \o citationTitle(source)
         \o <<"\">", CitationMark(k), "</a>">>
    ELSE <<"<span class=\"citation-number\">", CitationMark(k), "</span>">>

\* sources.map(...).join(' ')
RECURSIVE joinCitations(_, _)
joinCitations(sources, k) ==
    IF k > Len(sources) THEN <<>>
    ELSE citationHtml(sources[k], k)
         \o (IF k < Len(sources) THEN <<" ">> ELSE <<>>)
         \o joinCitations(sources, k + 1)

addInlineCitations(content, sources) ==
    IF sources = <<>> THEN content
    ELSE content \o <<" ">> \o joinCitations(sources, 1)

\* ------------------------------------------------------------------- state
VARIABLES
    sessionId,              \* let sessionId
    messages,               \* let messages: the message history
    isStreaming,            \* let isStreaming
    isProcessing,           \* let isProcessing
    inputValue,             \* messageInput.value
    sendBtnDisabled,        \* sendBtn.disabled
    container,              \* children of messagesContainer, in document order
    sourcesList,            \* entries of the source panel (sourcesList)
    sourcesDisplay,         \* sourcesSection.style.display
    nextId,                 \* identity of the next element addMessage creates
    pc,                     \* where the running send is suspended
    loadingDiv,             \* sendStreamingMessage / sendRegularMessage: the placeholder
    fullResponse,           \* sendStreamingMessage: let fullResponse
    sources,                \* sendStreamingMessage: let sources
    responseDiv,            \* sendStreamingMessage: let responseDiv (0 is null)
    hasCreatedResponseDiv,  \* sendStreamingMessage: let hasCreatedResponseDiv
    respHTML,               \* responseDiv.innerHTML, attached or not
    responseOk,             \* sendRegularMessage: response.ok
    errorBody,              \* detail of the body of a non-2xx response ("" is none)
    wire,                   \* bytes of the response body not yet read
    request,                \* body of the request of the running send
    expected,               \* the texts of the content frames the server wrote, joined
    cutInLine,              \* some chunk of the running response ended inside a line
    lastEvent,              \* the latest frame applied to the response: metadata or content
    errorFrame,             \* whether an error frame was handled, and on what text
    dropped,                \* a marker line was dropped because its payload did not parse
    outcome,                \* how the running send ended
    inFlight,               \* requests to /query issued and not yet settled
    nSends,                 \* sends that ran to their end
    nFrames,                \* frame lines written so far
    connectionStatus,       \* connectionStatus.classList: the classes connected and error
    statusText,             \* statusText.textContent
    statusDetails,          \* statusDetails.textContent
    checks,                 \* the calls of checkConnection: where each is suspended
    lastCompleted           \* how the health check that completed last ended

vars == <<sessionId, messages, isStreaming, isProcessing, inputValue, sendBtnDisabled,
          container, sourcesList, sourcesDisplay, nextId, pc, loadingDiv, fullResponse,
          sources, responseDiv, hasCreatedResponseDiv, respHTML, responseOk, errorBody,
          wire, request, expected, cutInLine, lastEvent, errorFrame, dropped, outcome,
          inFlight, nSends, nFrames, connectionStatus, statusText, statusDetails,
          checks, lastCompleted>>

\* what checkConnection works on
health == <<connectionStatus, statusText, statusDetails, checks, lastCompleted>>

globals == <<sessionId, messages, isStreaming, isProcessing, inputValue, sendBtnDisabled,
             container, sourcesList, sourcesDisplay, nextId>>
locals  == <<loadingDiv, fullResponse, sources, responseDiv, hasCreatedResponseDiv,
             respHTML, responseOk, errorBody, wire, request, expected, cutInLine,
             lastEvent, errorFrame, dropped>>

\* what a send works on
chat == <<globals, pc, locals, outcome, inFlight, nSends, nFrames>>

\* generateSessionId draws a random id
SessionIds == {"session-a", "session-b"}

\* what the user can have in the input box
Question == <<"What documents do you have access to?">>
Inputs == {<<>>, <<" ">>, Question}
\* data-prompt of the first prompt chip of the welcome message
PromptChip == Question

\* ---------------------------------------------------------------- the DOM
WelcomeNode == [cls |-> "welcome-message", id |-> 0, html |-> <<"Welcome to RAG Assistant">>]
LoadingHTML == <<"<div class=\"loading-dots\">">>

\* createWelcomeMessage assigned to messagesContainer.innerHTML
createWelcomeMessage == <<WelcomeNode>>

hasNode(cont, id) == \E i \in 1..Len(cont) : cont[i].id = id
isWelcome(n) == n.cls = "welcome-message"
notWelcome(n) == ~isWelcome(n)

\* element.remove() of the message element with this identity
removeNode(cont, id) ==
    LET keep(n) == n.id # id IN SelectSeq(cont, keep)

\* addMessage: the welcome message goes, the new message element is appended
addMessage(cont, id, html, type) ==
    Append(SelectSeq(cont, notWelcome), [cls |-> type, id |-> id, html |-> html])

\* responseDiv.innerHTML = html, seen in the document when the element is attached
setInnerHTML(cont, id, html) ==
    [i \in 1..Len(cont) |-> IF cont[i].id = id THEN [cont[i] EXCEPT !.html = html]
                                                   ELSE cont[i]]

\* displaySourcesWithReferences: the panel after the call, <<entries, display>>
displayName(source) ==
    IF source.source # NoField THEN <<source.source[Len(source.source)]>>
    ELSE IF source.url # NoField THEN <<source.url[Len(source.url)]>>
    ELSE IF source.title # NoField THEN source.title
    ELSE <<"Unknown source">>

sourceItem(source, k) ==
    [name |-> <<ToString(k), ". ">> \o displayName(source), link |-> isLinked(source)]

\* displaySourcesWithReferences returning on an empty list without hiding
displaySourcesKeepsPanel(list, display, srcs) ==
    IF srcs = <<>> THEN <<list, display>>
    ELSE <<[k \in 1..Len(srcs) |-> sourceItem(srcs[k], k)], "block">>

displaySourcesWithReferences(list, display, srcs) ==
    IF srcs = <<>> THEN <<list, "none">>
    ELSE <<[k \in 1..Len(srcs) |-> sourceItem(srcs[k], k)], "block">>

NoRequest == [question |-> <<>>, stream |-> FALSE, session_id |-> ""]

\* the connection indicator as the page is loaded: no class set, a neutral text
IndicatorAtLoad == [classes |-> [connected |-> FALSE, error |-> FALSE],
                    text |-> "Connecting...", details |-> ""]

NoCheck == [pc |-> "none", ok |-> FALSE]

\* initializeApp calls checkConnection once and sets the interval timer: the
\* fetch of the first health check is pending
HealthInit ==
    /\ connectionStatus = IndicatorAtLoad.classes
    /\ statusText = IndicatorAtLoad.text
    /\ statusDetails = IndicatorAtLoad.details
    /\ checks = [i \in 1..MaxChecks |-> IF i = 1 THEN [pc |-> "fetch", ok |-> FALSE]
                                                  ELSE NoCheck]
    /\ lastCompleted = "none"

Init ==
    /\ HealthInit
    /\ sessionId \in SessionIds
    /\ messages = <<>>
    /\ isStreaming \in BOOLEAN
    /\ isProcessing = FALSE
    /\ inputValue = <<>>
    /\ sendBtnDisabled = TRUE
    /\ container = createWelcomeMessage
    /\ sourcesList = <<>>
    /\ sourcesDisplay = "none"
    /\ nextId = 1
    /\ pc = "idle"
    /\ loadingDiv = 0
    /\ fullResponse = <<>>
    /\ sources = <<>>
    /\ responseDiv = 0
    /\ hasCreatedResponseDiv = FALSE
    /\ respHTML = <<>>
    /\ responseOk = FALSE
    /\ errorBody = ""
    /\ wire = <<>>
    /\ request = NoRequest
    /\ expected = <<>>
    /\ cutInLine = FALSE
    /\ lastEvent = "none"
    /\ errorFrame = "none"
    /\ dropped = FALSE
    /\ outcome = "none"
    /\ inFlight = 0
    /\ nSends = 0
    /\ nFrames = 0

\* --------------------------------------------------- user input and toggles
\* the input listener of messageInput
TypeInput(v) ==
    /\ v # inputValue
    /\ inputValue' = v
    /\ sendBtnDisabled' = (Trim(v) = <<>>)
    /\ UNCHANGED <<health, sessionId, messages, isStreaming, isProcessing, container, sourcesList,
                   sourcesDisplay, nextId, pc, locals, outcome, inFlight, nSends, nFrames>>

\* the document click listener, on a prompt chip of the welcome message
ClickPromptChip ==
    /\ \E i \in 1..Len(container) : isWelcome(container[i])
    /\ inputValue' = PromptChip
    /\ sendBtnDisabled' = FALSE
    /\ UNCHANGED <<health, sessionId, messages, isStreaming, isProcessing, container, sourcesList,
                   sourcesDisplay, nextId, pc, locals, outcome, inFlight, nSends, nFrames>>

\* the change listener of streamModeToggle
ToggleStreamMode ==
    /\ isStreaming' = ~isStreaming
    /\ UNCHANGED <<health, sessionId, messages, isProcessing, inputValue, sendBtnDisabled, container,
                   sourcesList, sourcesDisplay, nextId, pc, locals, outcome, inFlight,
                   nSends, nFrames>>

\* ------------------------------------------------------------- chat resets
startNewChat ==
    /\ sessionId' \in SessionIds
    /\ messages' = <<>>
    /\ container' = createWelcomeMessage
    /\ sourcesList' = <<>>
    /\ sourcesDisplay' = "none"
    /\ UNCHANGED <<health, isStreaming, isProcessing, inputValue, sendBtnDisabled, nextId, pc,
                   locals, outcome, inFlight, nSends, nFrames>>

\* clearChat hiding the source panel as well
clearChatHidesPanel ==
    /\ container' = createWelcomeMessage
    /\ messages' = <<>>
    /\ sourcesDisplay' = "none"
    /\ UNCHANGED <<health, sessionId, isStreaming, isProcessing, inputValue, sendBtnDisabled,
                   sourcesList, nextId, pc, locals, outcome, inFlight, nSends, nFrames>>

clearChat ==
    /\ container' = createWelcomeMessage
    /\ messages' = <<>>
    /\ UNCHANGED <<health, sessionId, isStreaming, isProcessing, inputValue, sendBtnDisabled,
                   sourcesList, sourcesDisplay, nextId, pc, locals, outcome, inFlight,
                   nSends, nFrames>>

\* ------------------------------------------------------------- sendMessage
\* sendFinally that leaves the flag and the button as they are
sendFinallyKeepsFlag ==
    /\ isProcessing' = isProcessing
    /\ sendBtnDisabled' = sendBtnDisabled
    /\ pc' = "idle"
    /\ inFlight' = inFlight - 1
    /\ nSends' = nSends + 1
    /\ loadingDiv' = 0
    /\ fullResponse' = <<>>
    /\ sources' = <<>>
    /\ responseDiv' = 0
    /\ hasCreatedResponseDiv' = FALSE
    /\ respHTML' = <<>>
    /\ responseOk' = FALSE
    /\ errorBody' = ""
    /\ wire' = <<>>
    /\ request' = NoRequest
    /\ expected' = <<>>
    /\ cutInLine' = FALSE
    /\ lastEvent' = "none"
    /\ errorFrame' = "none"
    /\ dropped' = FALSE

\* sendRefused without the test of the message
sendRefusedOnBusyOnly(message) == isProcessing

\* sendRefused without the test of isProcessing
sendRefusedOnEmptyOnly(message) == message = <<>>

\* the guard of sendMessage: nothing to send, or a send is running
sendRefused(message) == message = <<>> \/ isProcessing

\* sendMessage up to the fetch of sendStreamingMessage / sendRegularMessage:
\* the user message, the cleared input, the loading placeholder, the request
sendMessage(via) ==
    LET message == Trim(inputValue) IN
    /\ via = "click" => ~sendBtnDisabled
    /\ IF sendRefused(message)
       THEN UNCHANGED vars
       ELSE /\ nSends < MaxSends
            /\ isProcessing' = TRUE
            /\ messages' = Append(messages, [role |-> "user", content |-> message])
            /\ inputValue' = <<>>
            /\ sendBtnDisabled' = TRUE
            /\ container' = addMessage(addMessage(container, nextId, message, "user"),
                                       nextId + 1, LoadingHTML, "assistant")
            /\ loadingDiv' = nextId + 1
            /\ nextId' = nextId + 2
            /\ fullResponse' = <<>>
            /\ sources' = <<>>
            /\ responseDiv' = 0
            /\ hasCreatedResponseDiv' = FALSE
            /\ respHTML' = <<>>
            /\ responseOk' = FALSE
            /\ errorBody' = ""
            /\ wire' = <<>>
            /\ expected' = <<>>
            /\ cutInLine' = FALSE
            /\ lastEvent' = "none"
            /\ errorFrame' = "none"
            /\ dropped' = FALSE
            /\ request' = [question |-> message, stream |-> isStreaming,
                           session_id |-> sessionId]
            /\ inFlight' = inFlight + 1
            /\ outcome' = "running"
            /\ pc' = "fetch"
            /\ UNCHANGED <<health, sessionId, isStreaming, sourcesList, sourcesDisplay, nSends,
                           nFrames>>

\* catchError without the removal of the placeholder
catchErrorKeepsLoading(cont, loading, id, errorMessage) ==
    addMessage(cont, id, <<"Error: ", errorMessage>>, "assistant")

\* the container after the catch block: loadingDiv.parentElement.remove(), then
\* addMessage of the error text
catchError(cont, loading, id, errorMessage) ==
    addMessage(removeNode(cont, loading), id, <<"Error: ", errorMessage>>, "assistant")

\* the finally block of sendMessage, run as the send function returns: the
\* flag is cleared, the button enabled, and the locals of the send are gone
sendFinally ==
    /\ isProcessing' = FALSE
    /\ sendBtnDisabled' = FALSE
    /\ pc' = "idle"
    /\ inFlight' = inFlight - 1
    /\ nSends' = nSends + 1
    /\ loadingDiv' = 0
    /\ fullResponse' = <<>>
    /\ sources' = <<>>
    /\ responseDiv' = 0
    /\ hasCreatedResponseDiv' = FALSE
    /\ respHTML' = <<>>
    /\ responseOk' = FALSE
    /\ errorBody' = ""
    /\ wire' = <<>>
    /\ request' = NoRequest
    /\ expected' = <<>>
    /\ cutInLine' = FALSE
    /\ lastEvent' = "none"
    /\ errorFrame' = "none"
    /\ dropped' = FALSE

\* the catch block of sendStreamingMessage and of sendRegularMessage, then the
\* finally block: the placeholder goes, an error message is appended
sendFails(errorMessage) ==
    /\ container' = catchError(container, loadingDiv, nextId, errorMessage)
    /\ nextId' = nextId + 1
    /\ outcome' = "failed"
    /\ sendFinally
    /\ UNCHANGED <<health, sessionId, messages, isStreaming, inputValue, sourcesList,
                   sourcesDisplay, nFrames>>

\* ------------------------------------------------------ sendStreamingMessage
\* the state one line of a chunk works on
LineState == [container |-> container, nextId |-> nextId, fullResponse |-> fullResponse,
              sources |-> sources, responseDiv |-> responseDiv,
              hasCreatedResponseDiv |-> hasCreatedResponseDiv, respHTML |-> respHTML,
              lastEvent |-> lastEvent, errorFrame |-> errorFrame, dropped |-> dropped]

\* placeholder replaced by an empty response container
createResponseDiv(L) ==
    [L EXCEPT !.container = addMessage(removeNode(L.container, loadingDiv), L.nextId,
                                       <<>>, "assistant"),
              !.responseDiv = L.nextId,
              !.nextId = L.nextId + 1,
              !.respHTML = <<>>,
              !.hasCreatedResponseDiv = TRUE]

\* onMetadata without the test of hasCreatedResponseDiv
onMetadataAlwaysCreates(L, data) ==
    createResponseDiv([L EXCEPT !.sources = IF data.hasSources THEN data.sources ELSE <<>>,
                                !.lastEvent = "metadata"])

\* onMetadata adding the new list to the stored one
onMetadataMerges(L, data) ==
    LET L1 == [L EXCEPT !.sources = L.sources \o (IF data.hasSources THEN data.sources
                                                  ELSE <<>>),
                        !.lastEvent = "metadata"]
    IN  IF ~L1.hasCreatedResponseDiv THEN createResponseDiv(L1) ELSE L1

\* data.type === 'metadata'; loadingDiv.parentElement is the message element of
\* the placeholder, which is never null
onMetadata(L, data) ==
    LET L1 == [L EXCEPT !.sources = IF data.hasSources THEN data.sources ELSE <<>>,
                        !.lastEvent = "metadata"]
    IN  IF ~L1.hasCreatedResponseDiv THEN createResponseDiv(L1) ELSE L1

\* what a content frame writes into responseDiv.innerHTML
renderContent(text, srcs) == addInlineCitations(markedParse(text), srcs)

\* assignInnerHTML with += for =
appendInnerHTML(old, contentWithCitations) == old \o contentWithCitations

\* responseDiv.innerHTML = contentWithCitations: the new content of the element
assignInnerHTML(old, contentWithCitations) == contentWithCitations

\* onContent with fullResponse = data.text for fullResponse += data.text
onContentOverwrite(L, data) ==
    LET L1 == IF ~L.hasCreatedResponseDiv THEN createResponseDiv(L) ELSE L
        L2 == [L1 EXCEPT !.fullResponse = data.text, !.lastEvent = "content"]
        html == assignInnerHTML(L2.respHTML, renderContent(L2.fullResponse, L2.sources))
    IN  [L2 EXCEPT !.respHTML = html,
                   !.container = setInnerHTML(L2.container, L2.responseDiv, html)]

\* data.type === 'content'
onContent(L, data) ==
    LET L1 == IF ~L.hasCreatedResponseDiv THEN createResponseDiv(L) ELSE L
        L2 == [L1 EXCEPT !.fullResponse = L1.fullResponse \o data.text,
                         !.lastEvent = "content"]
        html == assignInnerHTML(L2.respHTML, renderContent(L2.fullResponse, L2.sources))
    IN  IF L2.responseDiv # 0
        THEN [L2 EXCEPT !.respHTML = html,
                        !.container = setInnerHTML(L2.container, L2.responseDiv, html)]
        ELSE L2

\* data.type === 'error': the Error is thrown inside the try of the line and
\* caught by its catch, which logs it; the loop goes on
onError(L, data) ==
    [L EXCEPT !.errorFrame = IF L.fullResponse # <<>> THEN "after text"
                             ELSE IF L.errorFrame = "none" THEN "no text" ELSE L.errorFrame]

\* processLine replacing the placeholder on a frame of any other type
processLineUnknownStarts(L, line) ==
    IF ~startsWithMarker(line) THEN L
    ELSE LET data == JSONparse(sliceMarker(line)) IN
         IF ~data.ok THEN [L EXCEPT !.dropped = TRUE]
         ELSE CASE data.type = "metadata" -> onMetadata(L, data)
                [] data.type = "content"  -> onContent(L, data)
                [] data.type = "error"    -> onError(L, data)
                [] OTHER -> IF ~L.hasCreatedResponseDiv THEN createResponseDiv(L) ELSE L

\* the body of the for loop over the lines of a chunk
processLine(L, line) ==
    IF ~startsWithMarker(line) THEN L
    ELSE LET data == JSONparse(sliceMarker(line)) IN
         IF ~data.ok THEN [L EXCEPT !.dropped = TRUE]
         ELSE CASE data.type = "metadata" -> onMetadata(L, data)
                [] data.type = "content"  -> onContent(L, data)
                [] data.type = "error"    -> onError(L, data)
                [] OTHER                  -> L

\* a marker line whose payload JSON.parse rejects
isMalformed(line) == startsWithMarker(line) /\ ~JSONparse(sliceMarker(line)).ok

\* processLines leaving the loop at the first line that does not parse
RECURSIVE processLinesStopAtBad(_, _)
processLinesStopAtBad(L, lines) ==
    IF lines = <<>> THEN L
    ELSE IF isMalformed(Head(lines)) THEN processLine(L, Head(lines))
    ELSE processLinesStopAtBad(processLine(L, Head(lines)), Tail(lines))

\* for (const line of lines)
RECURSIVE processLines(_, _)
processLines(L, lines) ==
    IF lines = <<>> THEN L ELSE processLines(processLine(L, Head(lines)), Tail(lines))

\* the responses the server can still write: up to the frame budget
RECURSIVE LinesUpTo(_)
LinesUpTo(n) ==
    IF n = 0 THEN {<<>>}
    ELSE LinesUpTo(n - 1)
         \cup {Append(ls, l) : ls \in {x \in LinesUpTo(n - 1) : Len(x) = n - 1},
                               l \in FrameLines}

\* the texts of the content frames of a response, joined in the order written
RECURSIVE contentTexts(_)
contentTexts(lines) ==
    IF lines = <<>> THEN <<>>
    ELSE (IF Head(lines) = FrameLine(ObjHello) THEN <<"Hello">>
          ELSE IF Head(lines) = FrameLine(ObjWorld) THEN <<" ", "world">>
          ELSE <<>>) \o contentTexts(Tail(lines))

\* fetch rejects (either mode): the catch block runs
fetchRejects ==
    /\ pc = "fetch"
    /\ sendFails("Failed to fetch")

\* every response the frame budget allows
Streams == LinesUpTo(MaxFrames)

\* the fetch of sendStreamingMessage resolves with a non-2xx status: the throw of
\* line 466 lands in the catch block
streamRefused ==
    /\ pc = "fetch"
    /\ request.stream
    /\ sendFails("Failed to get response")

\* the fetch of sendStreamingMessage resolves with a 2xx status: the read loop
\* starts on the body the server writes
streamResponse(lines) ==
    /\ pc = "fetch"
    /\ request.stream
    /\ Len(lines) <= MaxFrames - nFrames
    /\ wire' = Encode(lines)
    /\ expected' = contentTexts(lines)
    /\ nFrames' = nFrames + Len(lines)
    /\ pc' = "read"
    /\ UNCHANGED <<health, globals, loadingDiv, fullResponse, sources, responseDiv,
                   hasCreatedResponseDiv, respHTML, responseOk, errorBody, request,
                   cutInLine, lastEvent, errorFrame, dropped, outcome, inFlight, nSends>>

\* a chunk ends inside a line when no newline is next to the cut
cutsLine(w, k) == k < Len(w) /\ w[k] # "\n" /\ w[k + 1] # "\n"

\* reader.read() resolves with the next k pieces: the chunk is split into lines
\* and every line is handled
readChunk(k) ==
    /\ pc = "read"
    /\ k \in 1..Len(wire)
    /\ LET L == processLines(LineState, SplitLines(SubSeq(wire, 1, k))) IN
        /\ container' = L.container
        /\ nextId' = L.nextId
        /\ fullResponse' = L.fullResponse
        /\ sources' = L.sources
        /\ responseDiv' = L.responseDiv
        /\ hasCreatedResponseDiv' = L.hasCreatedResponseDiv
        /\ respHTML' = L.respHTML
        /\ lastEvent' = L.lastEvent
        /\ errorFrame' = L.errorFrame
        /\ dropped' = L.dropped
    /\ cutInLine' = (cutInLine \/ cutsLine(wire, k))
    /\ wire' = SubSeq(wire, k + 1, Len(wire))
    /\ UNCHANGED <<health, sessionId, messages, isStreaming, isProcessing, inputValue,
                   sendBtnDisabled, sourcesList, sourcesDisplay, pc, loadingDiv, responseOk,
                   errorBody, request, expected, outcome, inFlight, nSends, nFrames>>

\* reader.read() resolves with done: the source panel is shown, the answer is
\* pushed to the history
readDone ==
    /\ pc = "read"
    /\ wire = <<>>
    /\ LET panel == displaySourcesWithReferences(sourcesList, sourcesDisplay, sources) IN
        /\ sourcesList' = panel[1]
        /\ sourcesDisplay' = panel[2]
    /\ messages' = Append(messages, [role |-> "assistant", content |-> fullResponse])
    /\ outcome' = "complete"
    /\ sendFinally
    /\ UNCHANGED <<health, sessionId, isStreaming, inputValue, container, nextId, nFrames>>

\* reader.read() rejects: the transport failed, the catch block runs
readRejects ==
    /\ pc = "read"
    /\ sendFails("network error")

\* -------------------------------------------------------- sendRegularMessage
\* what the non-streaming path puts into the new message element
renderRegular(answer, srcs) == addInlineCitations(markedParse(answer), srcs)

Answers == {<<>>, <<"Hello", " ", "world">>}
SourceLists == {<<>>, <<Doc1>>, <<Web2, Doc1>>, <<Kb3>>}
Details == {"", "Knowledge base unavailable"}

\* the fetch of sendRegularMessage resolves; a non-2xx response carries a body
\* with or without a detail
regularResponse(ok) ==
    /\ pc = "fetch"
    /\ ~request.stream
    /\ responseOk' = ok
    /\ errorBody' \in (IF ok THEN {""} ELSE Details)
    /\ pc' = "json"
    /\ UNCHANGED <<health, globals, loadingDiv, fullResponse, sources, responseDiv,
                   hasCreatedResponseDiv, respHTML, wire, request, expected, cutInLine,
                   lastEvent, errorFrame, dropped, outcome, inFlight, nSends, nFrames>>

\* response.json() resolves with the answer of a 2xx response
regularAnswer(answer, srcs) ==
    /\ pc = "json"
    /\ responseOk
    /\ container' = addMessage(removeNode(container, loadingDiv), nextId,
                               renderRegular(answer, srcs), "assistant")
    /\ nextId' = nextId + 1
    /\ LET panel == displaySourcesWithReferences(sourcesList, sourcesDisplay, srcs) IN
        /\ sourcesList' = panel[1]
        /\ sourcesDisplay' = panel[2]
    /\ messages' = Append(messages, [role |-> "assistant", content |-> answer])
    /\ outcome' = "complete"
    /\ sendFinally
    /\ UNCHANGED <<health, sessionId, isStreaming, inputValue, nFrames>>

\* regularError showing the generic text whatever the body holds
regularErrorGenericOnly(detail) ==
    /\ pc = "json"
    /\ ~responseOk
    /\ detail = errorBody
    /\ sendFails("Failed to get response")

\* response.json() resolves with the body of a non-2xx response:
\* throw new Error(error.detail || 'Failed to get response')
regularError(detail) ==
    /\ pc = "json"
    /\ ~responseOk
    /\ detail = errorBody
    /\ sendFails(IF detail # "" THEN detail ELSE "Failed to get response")

\* response.json() rejects: the body is no JSON, or the transport failed
jsonRejects ==
    /\ pc = "json"
    /\ sendFails("Unexpected token")

\* ------------------------------------------------------------ specification
Next ==
    \/ \E v \in Inputs : TypeInput(v)
    \/ ClickPromptChip
    \/ ToggleStreamMode
    \/ startNewChat
    \/ clearChat
    \/ \E via \in {"click", "enter"} : sendMessage(via)
    \/ fetchRejects
    \/ streamRefused
    \/ \E lines \in Streams : streamResponse(lines)
    \/ \E k \in 1..Len(wire) : readChunk(k)
    \/ readDone
    \/ readRejects
    \/ \E ok \in BOOLEAN : regularResponse(ok)
    \/ \E a \in Answers, srcs \in SourceLists : regularAnswer(a, srcs)
    \/ \E d \in Details : regularError(d)
    \/ jsonRejects

Spec == Init /\ [][Next]_vars

\* the responses of the fair specification: one frame line short of the budget
LiveStreams == LinesUpTo(MaxFrames - 1)

\* the promise the running send awaits settles: the fetch, a read of the body,
\* or the reading of the JSON body resolves or rejects
Settles ==
    \/ fetchRejects
    \/ streamRefused
    \/ \E lines \in LiveStreams : streamResponse(lines)
    \/ \E k \in 1..Len(wire) : readChunk(k)
    \/ readDone
    \/ readRejects
    \/ \E ok \in BOOLEAN : regularResponse(ok)
    \/ \E a \in Answers, srcs \in SourceLists : regularAnswer(a, srcs)
    \/ \E d \in Details : regularError(d)
    \/ jsonRejects

\* the application on a transport that settles every pending promise: a
\* response body is finite, so its reads end with done or with a failure
NextLive ==
    \/ \E v \in Inputs : TypeInput(v)
    \/ ClickPromptChip
    \/ ToggleStreamMode
    \/ startNewChat
    \/ clearChat
    \/ \E via \in {"click", "enter"} : sendMessage(via)
    \/ Settles

SpecLive == Init /\ [][NextLive]_vars /\ WF_vars(Settles)

\* ------------------------------------------- a session with an earlier answer
\* the responses of such a session: up to the frame budget, over SessionLines
RECURSIVE LinesOver(_, _)
LinesOver(alphabet, n) ==
    IF n = 0 THEN {<<>>}
    ELSE LinesOver(alphabet, n - 1)
         \cup {Append(ls, l) : ls \in {x \in LinesOver(alphabet, n - 1) : Len(x) = n - 1},
                               l \in alphabet}

SessionStreams == LinesOver(SessionLines, MaxFrames)

\* the application after one question was answered with "Hello world" and the
\* one source doc1.pdf: the exchange is displayed and stored, the panel is shown
FirstAnswer == <<"Hello", " ", "world">>

InitSession ==
    /\ HealthInit
    /\ sessionId \in SessionIds
    /\ messages = <<[role |-> "user", content |-> Question],
                    [role |-> "assistant", content |-> FirstAnswer]>>
    /\ isStreaming \in BOOLEAN
    /\ isProcessing = FALSE
    /\ inputValue = <<>>
    /\ sendBtnDisabled = FALSE
    /\ container = <<[cls |-> "user", id |-> 1, html |-> Question],
                     [cls |-> "assistant", id |-> 3,
                      html |-> renderRegular(FirstAnswer, <<Doc1>>)]>>
    /\ sourcesList = <<sourceItem(Doc1, 1)>>
    /\ sourcesDisplay = "block"
    /\ nextId = 4
    /\ pc = "idle"
    /\ loadingDiv = 0
    /\ fullResponse = <<>>
    /\ sources = <<>>
    /\ responseDiv = 0
    /\ hasCreatedResponseDiv = FALSE
    /\ respHTML = <<>>
    /\ responseOk = FALSE
    /\ errorBody = ""
    /\ wire = <<>>
    /\ request = NoRequest
    /\ expected = <<>>
    /\ cutInLine = FALSE
    /\ lastEvent = "none"
    /\ errorFrame = "none"
    /\ dropped = FALSE
    /\ outcome = "complete"
    /\ inFlight = 0
    /\ nSends = 0
    /\ nFrames = 0

NextSession ==
    \/ \E v \in Inputs : TypeInput(v)
    \/ ClickPromptChip
    \/ ToggleStreamMode
    \/ startNewChat
    \/ clearChat
    \/ \E via \in {"click", "enter"} : sendMessage(via)
    \/ fetchRejects
    \/ streamRefused
    \/ \E lines \in SessionStreams : streamResponse(lines)
    \/ \E k \in 1..Len(wire) : readChunk(k)
    \/ readDone
    \/ readRejects
    \/ \E ok \in BOOLEAN : regularResponse(ok)
    \/ \E a \in Answers, srcs \in SourceLists : regularAnswer(a, srcs)
    \/ \E d \in Details : regularError(d)
    \/ jsonRejects

SpecSession == InitSession /\ [][NextSession]_vars

\* ---------------------------------------------------------- checkConnection
\* classList.add('connected'), classList.remove('error') with the remove left out
markConnectedOnly(classes) == [classes EXCEPT !.connected = TRUE]

\* classList.add('connected'); classList.remove('error')
markConnected(classes) == [classes EXCEPT !.connected = TRUE, !.error = FALSE]

\* classList.add('error'); classList.remove('connected')
markError(classes) == [classes EXCEPT !.error = TRUE, !.connected = FALSE]

\* data.client_type of the body of /health ("" is none)
ClientTypes == {"", "agent", "knowledge_base"}

\* the interval timer fires: the next call of checkConnection issues its fetch
checkConnection(i) ==
    /\ checks[i].pc = "none"
    /\ i > 1 => checks[i - 1].pc # "none"
    /\ checks' = [checks EXCEPT ![i].pc = "fetch"]
    /\ UNCHANGED <<chat, connectionStatus, statusText, statusDetails, lastCompleted>>

\* the fetch of /health resolves, with a 2xx status or another
healthResponse(i, ok) ==
    /\ checks[i].pc = "fetch"
    /\ checks' = [checks EXCEPT ![i] = [pc |-> "json", ok |-> ok]]
    /\ UNCHANGED <<chat, connectionStatus, statusText, statusDetails, lastCompleted>>

\* the catch block of checkConnection
healthCatch(i, message) ==
    /\ connectionStatus' = markError(connectionStatus)
    /\ statusText' = "Connection failed"
    /\ statusDetails' = message
    /\ checks' = [checks EXCEPT ![i].pc = "done"]
    /\ lastCompleted' = "failed"
    /\ UNCHANGED chat

\* the fetch of /health rejects
healthFetchRejects(i) ==
    /\ checks[i].pc = "fetch"
    /\ healthCatch(i, "Failed to fetch")

\* response.json() rejects: the body is no JSON
healthJsonRejects(i) ==
    /\ checks[i].pc = "json"
    /\ healthCatch(i, "Unexpected token")

\* response.json() resolves: if (response.ok) the indicator is set, otherwise
\* nothing is done
healthBody(i, clientType) ==
    /\ checks[i].pc = "json"
    /\ IF checks[i].ok
       THEN /\ connectionStatus' = markConnected(connectionStatus)
            /\ statusText' = "Connected"
            /\ statusDetails' = IF clientType = "" THEN statusDetails
                                ELSE IF clientType = "agent" THEN "Using Bedrock Agent"
                                ELSE "Using Knowledge Base"
       ELSE UNCHANGED <<connectionStatus, statusText, statusDetails>>
    /\ checks' = [checks EXCEPT ![i].pc = "done"]
    /\ lastCompleted' = IF checks[i].ok THEN "2xx" ELSE "non-2xx"
    /\ UNCHANGED chat

NextHealth ==
    \/ \E i \in 1..MaxChecks : checkConnection(i)
    \/ \E i \in 1..MaxChecks, ok \in BOOLEAN : healthResponse(i, ok)
    \/ \E i \in 1..MaxChecks : healthFetchRejects(i)
    \/ \E i \in 1..MaxChecks : healthJsonRejects(i)
    \/ \E i \in 1..MaxChecks, c \in ClientTypes : healthBody(i, c)

SpecHealth == Init /\ [][NextHealth]_vars

\* ------------------------------------------------------------------ claims
\* every byte of the running streaming response has been read: the stream ends
\* with the next read
StreamAtEnd == pc = "read" /\ wire = <<>>

\* the running send was abandoned by startNewChat or clearChat: the message
\* element of its question, created right before its placeholder, is gone
Superseded == pc # "idle" /\ ~hasNode(container, loadingDiv - 1)

\* the step in which a streaming send ends normally
StreamCompletes == pc = "read" /\ pc' = "idle" /\ outcome' = "complete"

\* elements the running streaming send created after its placeholder
responseDivsCreated == nextId - loadingDiv - 1

HelloWorld == <<"Hello", " ", "world">>

\* how often the marker [k] occurs in a piece of HTML
markCount(html, k) == Cardinality({i \in 1..Len(html) : html[i] = CitationMark(k)})

\* the pieces of a piece of HTML that are citation markers of any number
allMarks(html) ==
    {i \in 1..Len(html) : \E k \in 1..Len(html) : html[i] = CitationMark(k)}

\* C1: when the stream ends, the accumulated answer text is the concatenation of
\* the texts of the content frames the server wrote, in the order written,
\* however the bytes were split into chunks.
C1_TextIsConcatenationUnderAnySplit == StreamAtEnd => fullResponse = expected

\* C2: once an error frame has been handled, reading stops: no later step of the
\* read loop takes bytes off the stream or changes the accumulated text, the
\* source list or the displayed message.
C2_NothingAppliesAfterErrorFrame ==
    [][(errorFrame # "none" /\ pc' = "read")
        => /\ wire' = wire
           /\ fullResponse' = fullResponse
           /\ sources' = sources
           /\ respHTML' = respHTML]_vars

\* C3: a send in which an error frame arrived after some content ends failed:
\* an error message is appended to the conversation and the history gets no
\* assistant entry.
C3_ErrorAfterContentFailsTheSend ==
    [][(errorFrame = "after text" /\ pc' = "idle")
        => /\ outcome' = "failed"
           /\ messages' = messages
           /\ container' # <<>>
           /\ Head(container'[Len(container')].html) = "Error: "]_vars

\* C4: once startNewChat or clearChat has run during a streaming send, no step
\* in which the send reads on or ends normally changes what is displayed or
\* stored, and the source panel is not shown again: the welcome view stays.
C4_AbandonedSendLeavesNoTrace ==
    [][(Superseded /\ request.stream /\ outcome' # "failed")
        => /\ container' = createWelcomeMessage
           /\ messages' = <<>>
           /\ (sourcesDisplay' = "block" => sourcesDisplay = "block")]_vars

\* C5: a stream in which a marker line was dropped because its payload did not
\* parse, and whose lines all arrived whole, reaches its end with the read loop
\* still running, no error message added, and the text of every content frame
\* applied in the order written.
C5_MalformedLineIsSkipped ==
    (pc = "read" /\ dropped /\ ~cutInLine)
        => /\ \A i \in 1..Len(container) : container[i].id <= loadingDiv + 1
           /\ Len(fullResponse) <= Len(expected)
           /\ fullResponse = SubSeq(expected, 1, Len(fullResponse))
           /\ (wire = <<>> => fullResponse = expected)

C5_Witness ==
    /\ StreamAtEnd /\ dropped /\ ~cutInLine /\ errorFrame = "none"
    /\ fullResponse = HelloWorld

\* C6: at most one request to /query is outstanding, it is outstanding exactly
\* while isProcessing is set, and no step taken while it is outstanding adds a
\* user message or issues a request.
C6_Invariant ==
    /\ inFlight <= 1
    /\ (inFlight = 1) = isProcessing
    /\ isProcessing = (pc # "idle")

C6_SingleSendInFlight ==
    /\ []C6_Invariant
    /\ [][isProcessing => (request' = request \/ pc' = "idle")]_vars

C6_Witness == isProcessing /\ ~sendBtnDisabled /\ Trim(inputValue) # <<>>

\* C7: while a streaming response is read, the send has created at most one
\* response container; it has created it exactly when a metadata or content
\* frame has been applied, and then the flag is set, the placeholder is gone
\* and responseDiv is that container.
C7_PlaceholderReplacedOnce ==
    pc = "read"
        => /\ responseDivsCreated <= 1
           /\ hasCreatedResponseDiv = (responseDivsCreated = 1)
           /\ hasCreatedResponseDiv = (lastEvent # "none")
           /\ responseDiv = (IF hasCreatedResponseDiv THEN loadingDiv + 1 ELSE 0)
           /\ hasCreatedResponseDiv => ~hasNode(container, loadingDiv)
           /\ (~hasCreatedResponseDiv /\ ~Superseded) => hasNode(container, loadingDiv)

C7_Witness ==
    /\ pc = "read" /\ hasCreatedResponseDiv /\ responseDivsCreated = 1
    /\ sources # <<>> /\ fullResponse = HelloWorld

\* C8: the step that ends a stream normally appends exactly one assistant entry
\* to the history, holding the accumulated text as it is; and after metadata
\* with the one source doc1.pdf, "Hello" and " world", the text is "Hello world"
\* and the displayed body is that paragraph followed by the one marker [1].
C8_Scenario ==
    /\ StreamAtEnd /\ ~cutInLine /\ ~dropped /\ errorFrame = "none"
    /\ lastEvent = "content" /\ sources = <<Doc1>> /\ expected = HelloWorld

C8_ScenarioResult ==
    C8_Scenario
        => /\ fullResponse = HelloWorld
           /\ respHTML = <<"<p>", "Hello", " ", "world", "</p>\n", " ",
                           "<span class=\"citation-number\">", "[1]", "</span>">>
           /\ \A i \in 1..Len(fullResponse) : \A k \in 1..2 :
                  fullResponse[i] # CitationMark(k)

C8_StoredContentIsAccumulatedText ==
    /\ []C8_ScenarioResult
    /\ [][StreamCompletes
           => messages' = Append(messages, [role |-> "assistant",
                                            content |-> fullResponse])]_vars

C8_Witness == C8_Scenario /\ hasNode(container, responseDiv)

\* C9: when a stream ends, the message it displays is the one the non-streaming
\* path displays for the same answer text and the same source list.
C9_StreamingDisplayMatchesRegular ==
    (StreamAtEnd /\ hasCreatedResponseDiv) => respHTML = renderRegular(fullResponse, sources)

\* C10: right after a content frame is applied, the displayed message is the
\* rendering of the current accumulated text and source list and of nothing
\* else: every source of the list has its marker exactly once and there is no
\* other marker.
C10_RenderDoesNotAccumulate ==
    (pc = "read" /\ lastEvent = "content")
        => /\ respHTML = renderContent(fullResponse, sources)
           /\ \A k \in 1..Len(sources) : markCount(respHTML, k) = 1
           /\ Cardinality(allMarks(respHTML)) = Len(sources)

C10_Witness ==
    /\ pc = "read" /\ lastEvent = "content"
    /\ Len(sources) = 2 /\ fullResponse = HelloWorld

\* where the marker [k] stands in a piece of HTML (0 when it has none)
markAt(html, k) ==
    IF \E i \in 1..Len(html) : html[i] = CitationMark(k)
    THEN CHOOSE i \in 1..Len(html) : html[i] = CitationMark(k)
    ELSE 0

\* the address a marker links to
linkTarget(source) == IF source.url # NoField THEN source.url ELSE source.source

\* what a rendered message shows after the body of its text
trailingBlock(html, text) == SubSeq(html, Len(markedParse(text)) + 1, Len(html))

\* the message a content frame rendered: the body first, then the markers
\* [1]..[N] in list order, the marker [k] inside the element of the k-th source
C11_MarkersInListOrder ==
    (pc = "read" /\ lastEvent = "content")
        => /\ SubSeq(respHTML, 1, Len(markedParse(fullResponse))) = markedParse(fullResponse)
           /\ \A k \in 1..Len(sources) :
                LET m == markAt(respHTML, k)
                    before == IF k = 1 THEN Len(markedParse(fullResponse))
                              ELSE markAt(respHTML, k - 1)
                IN  /\ markCount(respHTML, k) = 1
                    /\ m > before + 1
                    /\ IF isLinked(sources[k])
                       THEN \E j \in (before + 1)..(m - 1) :
                                SubSeq(respHTML, j, j + Len(linkTarget(sources[k])) - 1)
                                    = linkTarget(sources[k])
                       ELSE respHTML[m - 1] = "<span class=\"citation-number\">"
           /\ Cardinality(allMarks(respHTML)) = Len(sources)

\* C11: in every render the k-th source of the list has the marker [k], the
\* markers stand in one block after the body in the order 1..N, and from one
\* render to the next under the same list the block is the same, whatever text
\* was added.
C11_NumberingFollowsListPosition ==
    /\ []C11_MarkersInListOrder
    /\ [][(pc = "read" /\ pc' = "read" /\ lastEvent = "content" /\ lastEvent' = "content"
            /\ sources' = sources)
           => trailingBlock(respHTML', fullResponse') = trailingBlock(respHTML, fullResponse)]_vars

C11_Witness ==
    /\ pc = "read" /\ lastEvent = "content"
    /\ sources = <<Web2, Doc1>> /\ fullResponse = <<"Hello">>
    /\ wire = Encode(<<FrameLine(ObjWorld)>>)

\* the lines of the chunk a step of the read loop took off the stream
linesRead == SplitLines(SubSeq(wire, 1, Len(wire) - Len(wire')))

\* the list of the last metadata line among some lines as the server wrote them,
\* or the list held before when there is none
RECURSIVE latestList(_, _)
latestList(list, lines) ==
    IF lines = <<>> THEN list
    ELSE latestList(CASE Head(lines) = FrameLine(ObjMeta1) -> <<Doc1>>
                      [] Head(lines) = FrameLine(ObjMeta2) -> <<Web2, Doc1>>
                      [] Head(lines) = FrameLine(ObjMeta0) -> <<>>
                      [] Head(lines) = FrameLine(ObjMetaNoSources) -> <<>>
                      [] OTHER -> list,
                    Tail(lines))

\* C12: the read loop starts with the empty list, and after every chunk the
\* stored list is the list of the last metadata line of the chunk (empty for a
\* line without the sources field), or the list held before when the chunk has
\* no metadata line: nothing is merged, content lines change nothing.
C12_MetadataReplacesTheList ==
    /\ []((pc = "read" /\ lastEvent = "none") => sources = <<>>)
    /\ [][(pc = "read" /\ pc' = "read") => sources' = latestList(sources, linesRead)]_vars

C12_Witness ==
    /\ pc = "read" /\ lastEvent = "metadata" /\ sources = <<>>
    /\ fullResponse = <<"Hello">> /\ markCount(respHTML, 1) = 1

\* an inline error message, and a loading placeholder, among the messages
isErrorNode(n) == n.html # <<>> /\ Head(n.html) = "Error: "
isLoadingNode(n) == n.html = LoadingHTML

\* the step in which a read of the response body rejects
ReadFails == pc = "read" /\ outcome' = "failed"

\* C13: the step in which a read rejects ends the send as failed: the send is
\* no longer running and reads nothing more, no loading placeholder is left in
\* the conversation, its last message is the inline error, and the history is
\* as it was, without the partial text.
C13_ReadFailureEndsTheSend ==
    [][ReadFails
        => /\ pc' = "idle" /\ ~isProcessing' /\ inFlight' = 0
           /\ \A i \in 1..Len(container') : ~isLoadingNode(container'[i])
           /\ container' # <<>>
           /\ container'[Len(container')].html = <<"Error: ", "network error">>
           /\ Cardinality({i \in 1..Len(container') : isErrorNode(container'[i])}) = 1
           /\ messages' = messages]_vars

C13_Witness ==
    /\ pc = "idle" /\ outcome = "failed"
    /\ Len(container) = 3
    /\ container[2].html = renderContent(<<"Hello">>, <<Doc1>>)
    /\ container[3].html = <<"Error: ", "network error">>
    /\ messages = <<[role |-> "user", content |-> Question]>>

\* the step in which the running send ends
SendEnds == pc # "idle" /\ pc' = "idle"

\* C14: the step that ends a send in which an error frame was handled, or which
\* fails on a rejected fetch or read or on a non-2xx response, leaves the
\* history as it was: the entries before the send and the user's message.
C14_FailedSendKeepsHistory ==
    [][((errorFrame # "none" \/ outcome' = "failed") /\ SendEnds)
        => messages' = messages]_vars

\* C15: the step that ends a send nobody abandoned leaves no loading
\* placeholder in the conversation, and the last message of the conversation
\* is an assistant message this send created, the answer or the inline error.
C15_SendEndsInARenderedState ==
    [][(SendEnds /\ ~Superseded)
        => /\ \A i \in 1..Len(container') : ~isLoadingNode(container'[i])
           /\ container' # <<>>
           /\ container'[Len(container')].cls = "assistant"
           /\ container'[Len(container')].id > loadingDiv]_vars

\* C16: once startNewChat has run during a send, no step adds an inline error
\* message to the conversation displayed.
C16_SupersededSendIsSilent ==
    [][(Superseded /\ request.session_id # sessionId)
        => \A i \in 1..Len(container') : ~isErrorNode(container'[i])]_vars

\* C17: the step that ends a stream with empty accumulated text leaves no
\* loading placeholder and no inline error, leaves an empty content message in
\* the place of the placeholder, and stores an assistant entry with empty
\* content.
C17_EmptyAnswerIsComplete ==
    [][(StreamCompletes /\ fullResponse = <<>> /\ ~Superseded)
        => /\ \A i \in 1..Len(container') :
                  ~isLoadingNode(container'[i]) /\ ~isErrorNode(container'[i])
           /\ \E i \in 1..Len(container') :
                  container'[i].id = loadingDiv + 1 /\ container'[i].html = <<>>
           /\ messages' = Append(messages, [role |-> "assistant", content |-> <<>>])]_vars

\* the step in which the non-streaming path has read the body of a non-2xx
\* response (reading the body did not itself fail)
NonOkBodyRead ==
    /\ pc = "json" /\ ~responseOk /\ SendEnds
    /\ container'[Len(container')].html # <<"Error: ", "Unexpected token">>

\* C18: the step in which the non-streaming path has read the body of a non-2xx
\* response ends the send as failed: the placeholder is gone, the last message
\* is the inline error with the detail of the body, or the generic text when
\* the body has none, and the history is as it was.
C18_NonOkResponseShowsDetail ==
    [][NonOkBodyRead
        => /\ outcome' = "failed"
           /\ \A i \in 1..Len(container') : ~isLoadingNode(container'[i])
           /\ container'[Len(container')].cls = "assistant"
           /\ container'[Len(container')].html =
                  <<"Error: ", IF errorBody = "Knowledge base unavailable"
                               THEN "Knowledge base unavailable"
                               ELSE "Failed to get response">>
           /\ messages' = messages]_vars

C18_Witness ==
    /\ pc = "idle" /\ outcome = "failed"
    /\ Len(container) = 2
    /\ container[2].html = <<"Error: ", "Knowledge base unavailable">>
    /\ messages = <<[role |-> "user", content |-> Question]>>

\* the step in which a non-streaming send ends with an answer
RegularCompletes == pc = "json" /\ pc' = "idle" /\ outcome' = "complete"

\* with an empty list the renderer returns the body as it is; a metadata frame
\* with an empty list stores the empty list; and what a content frame renders
\* under the empty list holds no marker
C19_NoMarkersForEmptyList ==
    /\ \A a \in Answers : addInlineCitations(markedParse(a), <<>>) = markedParse(a)
    /\ pc = "read" => onMetadata(LineState, JSONparse(<<ObjMeta0>>)).sources = <<>>
    /\ (pc = "read" /\ lastEvent = "content" /\ sources = <<>>)
           => respHTML = markedParse(fullResponse) /\ allMarks(respHTML) = {}

\* C19: with an empty source list the rendered message is the body without any
\* marker, and the step that completes the send hides the source panel: a
\* stream that ends with the empty list, and a non-streaming answer whose
\* message has no marker, leave the panel hidden.
C19_EmptyListHidesPanel ==
    /\ []C19_NoMarkersForEmptyList
    /\ [][(StreamCompletes /\ sources = <<>>) => sourcesDisplay' = "none"]_vars
    /\ [][RegularCompletes
           => (sourcesDisplay' = "none")
                  = (allMarks(container'[Len(container')].html) = {})]_vars

C19_Witness ==
    /\ pc = "idle" /\ outcome = "complete" /\ nSends = 1
    /\ Len(messages) = 4 /\ Len(container) = 4
    /\ container[4].html = markedParse(<<"Hello">>)
    /\ sourcesDisplay = "none"
    /\ sourcesList = <<sourceItem(Doc1, 1)>>

\* a line as the server wrote it that the client has to discard: it does not
\* begin with the marker, or it is a frame of an unknown type
isDiscarded(line) == line = <<>> \/ line[1] # "data: " \/ line = <<"data: ", ObjPing>>

\* C20: a chunk made of lines without the marker (blank lines, comment lines,
\* the tail of a cut line) and of frames of an unknown type changes neither
\* the accumulated text, the source list, the flag of the response container,
\* the container itself nor anything displayed, and the read loop goes on.
C20_OtherLinesAreDiscarded ==
    [][(pc = "read" /\ wire' # wire /\ outcome' = "running"
            /\ \A i \in 1..Len(linesRead) : isDiscarded(linesRead[i]))
        => /\ pc' = "read"
           /\ fullResponse' = fullResponse
           /\ sources' = sources
           /\ hasCreatedResponseDiv' = hasCreatedResponseDiv
           /\ responseDiv' = responseDiv
           /\ respHTML' = respHTML
           /\ container' = container
           /\ errorFrame' = errorFrame /\ dropped' = dropped]_vars

C20_Witness ==
    /\ StreamAtEnd /\ nFrames = 2 /\ ~cutInLine /\ ~dropped
    /\ lastEvent = "none" /\ ~hasCreatedResponseDiv
    /\ hasNode(container, loadingDiv)

\* the sources a marker is rendered for, and whether a source has an address:
\* a url field, or a locator that starts with "http"
CitedSources == {Doc1, Web2, Kb3}
hasAddress(s) == s.url # <<>> \/ (s.source # <<>> /\ s.source[1] = "http")

\* C21: the marker of a source is a link exactly when the source has a url
\* field or its locator starts with "http", and then the link goes to the url
\* field when there is one, else to the locator; otherwise the marker is the
\* plain bracketed number. This holds for the renderer on every source, and for
\* every marker of a message a content frame rendered.
C21_LinkExactlyWhenAddressed ==
    /\ \A s \in CitedSources : \A k \in 1..Cardinality(CitedSources) :
          LET h == citationHtml(s, k) IN
          IF hasAddress(s)
          THEN /\ h[1] = "<a class=\"citation-link\" href=\""
               /\ SubSeq(h, 2, 1 + Len(linkTarget(s))) = linkTarget(s)
               /\ h[2 + Len(linkTarget(s))] = "\" title=\""
               /\ h[Len(h) - 1] = CitationMark(k) /\ h[Len(h)] = "</a>"
          ELSE h = <<"<span class=\"citation-number\">", CitationMark(k), "</span>">>
    /\ (pc = "read" /\ lastEvent = "content")
          => \A k \in 1..Len(sources) :
                respHTML[markAt(respHTML, k) - 1]
                    = (IF hasAddress(sources[k]) THEN "\">"
                       ELSE "<span class=\"citation-number\">")

C21_Witness ==
    /\ pc = "idle" /\ outcome = "complete" /\ Len(container) = 2
    /\ container[2].html =
           <<"<p>", "Hello", " ", "world", "</p>\n", " ",
             "<a class=\"citation-link\" href=\"", "https", "://kb/", "doc3.html",
             "\" title=\"", "KB article", "\">", "[1]", "</a>">>

\* C22: every assistant entry of the history stands right after a user entry:
\* the history does not begin with an assistant entry and holds no two
\* assistant entries in a row.
C22_AssistantFollowsItsUser ==
    \A i \in 1..Len(messages) :
        messages[i].role = "assistant" => (i > 1 /\ messages[i - 1].role = "user")

\* C23: the step that completes a stream with an answer text leaves as many
\* markers in the displayed answer as the source panel shows entries, numbered
\* alike: the markers [1]..[N] once each for a panel of N entries, none for a
\* hidden panel.
C23_MarkersMatchPanel ==
    [][(StreamCompletes /\ fullResponse # <<>> /\ ~Superseded)
        => LET shown == IF sourcesDisplay' = "block" THEN Len(sourcesList') ELSE 0
           IN  /\ Cardinality(allMarks(respHTML)) = shown
               /\ \A k \in 1..shown : markCount(respHTML, k) = 1]_vars

\* the flag is set exactly while an accepted send has not ended, and a
\* sendMessage with a question in the input is refused only while it is set
C24_FlagWhileRunning ==
    /\ isProcessing = (outcome = "running")
    /\ isProcessing = (pc # "idle")
    /\ sendRefused(Trim(Question)) = isProcessing

\* C24: the in-progress flag is set exactly while an accepted send is running,
\* and on a transport that settles every pending promise every accepted send
\* ends, as complete or as failed, with the flag cleared, after which
\* sendMessage with a question is not refused.
C24_EverySendEndsAndClearsTheFlag ==
    /\ []C24_FlagWhileRunning
    /\ (isProcessing ~> (~isProcessing /\ outcome \in {"complete", "failed"}))

C24_Witness ==
    /\ ~isProcessing /\ outcome = "failed" /\ nSends = 1
    /\ ~sendBtnDisabled /\ Trim(inputValue) = Question

\* C25: while no send is running and the input is empty or blank, no step sets
\* the in-progress flag, issues a request, or adds to the history or to the
\* conversation: sendMessage does nothing there, and the other things the user
\* can do at most reset the chat.
C25_BlankInputSendsNothing ==
    [][(pc = "idle" /\ Trim(inputValue) = <<>>)
        => /\ pc' = "idle" /\ isProcessing' = isProcessing
           /\ inFlight' = inFlight /\ request' = request
           /\ nextId' = nextId
           /\ (messages' = messages \/ messages' = <<>>)
           /\ (container' = container \/ container' = createWelcomeMessage)]_vars

C25_Witness ==
    /\ pc = "idle" /\ ~isProcessing /\ inputValue = <<" ">>
    /\ Len(messages) = 2 /\ Len(container) = 2 /\ request = NoRequest

\* what a reset leaves of the session id and the source panel: clearChat leaves
\* them as they are, startNewChat empties and hides the panel
LeftByClearChat ==
    sessionId' = sessionId /\ sourcesList' = sourcesList /\ sourcesDisplay' = sourcesDisplay
LeftByNewChat == sourcesList' = <<>> /\ sourcesDisplay' = "none"

\* C26: a step that brings back the welcome view empties the history and
\* either leaves session id and source panel alone (clearChat) or empties and
\* hides the panel (startNewChat); the session id changes only in a step of the
\* second kind; and the request of a send carries the session id of the moment
\* it is issued and keeps it while the send runs.
C26_ResetsAndSessionId ==
    /\ [][(container' = createWelcomeMessage /\ container # createWelcomeMessage)
           => messages' = <<>> /\ (LeftByClearChat \/ LeftByNewChat)]_vars
    /\ [][sessionId' # sessionId
           => messages' = <<>> /\ container' = createWelcomeMessage /\ LeftByNewChat]_vars
    /\ [][(pc = "idle" /\ pc' = "fetch")
           => request'.session_id = sessionId /\ sessionId' = sessionId]_vars
    /\ [][(pc # "idle" /\ pc' # "idle") => request' = request]_vars

C26_Witness ==
    /\ container = createWelcomeMessage /\ messages = <<>>
    /\ sourcesDisplay = "block" /\ sourcesList = <<sourceItem(Doc1, 1)>>
    /\ pc = "fetch" /\ request.session_id = sessionId

\* C27: whenever the indicator is in the connected state, the health check
\* that completed last got a 2xx response.
C27_ConnectedMeansLastCheckOk ==
    (connectionStatus.connected \/ statusText = "Connected") => lastCompleted = "2xx"

\* C28: whatever health checks have completed, in whatever order, the
\* indicator does not carry the classes connected and error together.
C28_NeverConnectedAndError == ~(connectionStatus.connected /\ connectionStatus.error)

C28_Witness ==
    /\ \A i \in 1..MaxChecks : checks[i].pc = "done"
    /\ connectionStatus.connected /\ ~connectionStatus.error
    /\ lastCompleted = "2xx" /\ statusDetails = "Failed to fetch"

====
